---- MODULE Spec2Model ----
(***************************************************************************)
(* Model of Directus::ImageImporter (Runtime/Resource/Import/              *)
(* ImageImporter.cpp): Load, LoadAsync, path validation, the engine        *)
(* texture fast path, format resolution, bitmap normalisation, pixel       *)
(* extraction and the parallel mip chain generation with its polling join. *)
(*                                                                         *)
(* Pixel buffers are kept as sequences of chunks: one chunk stands for the *)
(* w*h*4 bytes that one FIBTIMAPToRGBA call appends for a w x h bitmap,    *)
(* and carries the identity of the bitmap they were read from.             *)
(* GrayscaleCheck is modelled a second time on real bytes, and run on its  *)
(* own under SpecGrayscale.                                                *)
(***************************************************************************)
EXTENDS Integers, Sequences, FiniteSets, TLC

\* ---------------------------------------------------------------- bounds
\* largest number of worker threads the Threading subsystem is given
MaxWorkers == 2
\* Load / LoadAsync invocations a caller makes on one TextureInfo
MaxLoads == 2
\* largest base dimension tried for the mip size loop on its own
MaxDim == 10
\* most pixels of a buffer given to GrayscaleCheck on its own
MaxPixels == 2

\* ------------------------------------------------------------- constants
\* FreeImage: FIF_UNKNOWN = -1
FIF_UNKNOWN == 0 - 1
\* a format whose plugin can load (FIF_PNG, FIF_JPEG, FIF_BMP, ...)
FIF_READABLE == 13
\* a format id FreeImage knows but has no load procedure for
FIF_WRITEONLY == 99

\* the engine's sentinel for "no path assigned"
NOT_ASSIGNED == "N/A"

Max(a, b) == IF a >= b THEN a ELSE b

\* ------------------------------------------------------------ the files
\* What the collaborators (FileSystem, TextureInfo::Deserialize, FreeImage)
\* answer for a path.  failDims: the target sizes FreeImage_Rescale cannot
\* produce for this image (it returns NULL).
NoFile ==
    [exists |-> FALSE, engine |-> FALSE, deser |-> FALSE,
     sig |-> FIF_UNKNOWN, ext |-> FIF_UNKNOWN, decodes |-> FALSE,
     w |-> 0, h |-> 0, bpp |-> 0, type |-> "FIT_UNKNOWN",
     transparent |-> FALSE, gray |-> FALSE, failDims |-> {}]

Image(w, h, bpp, type, transparent, gray, failDims) ==
    [NoFile EXCEPT !.exists = TRUE, !.sig = FIF_READABLE, !.ext = FIF_READABLE,
                   !.decodes = TRUE, !.w = w, !.h = h, !.bpp = bpp,
                   !.type = type, !.transparent = transparent,
                   !.gray = gray, !.failDims = failDims]

ImagePaths ==
    {"dot.png", "rgba4x4.png", "gray4x2.jpg", "pal4x4.bmp", "deep2x2.tif", "odd.dat"}

BrokenPaths ==
    {"", NOT_ASSIGNED, "missing.png", "ok.tex", "bad.tex", "blob.bin",
     "raw.fmt", "wonly.fmt", "corrupt.png", "float.hdr"}

Paths == ImagePaths \cup BrokenPaths

File(p) ==
    CASE p = "missing.png" -> NoFile
      [] p = "ok.tex"      -> [NoFile EXCEPT !.exists = TRUE, !.engine = TRUE, !.deser = TRUE]
      [] p = "bad.tex"     -> [NoFile EXCEPT !.exists = TRUE, !.engine = TRUE]
      \* neither the content nor the extension names a format
      [] p = "blob.bin"    -> [NoFile EXCEPT !.exists = TRUE]
      \* the extension names a format that cannot be read
      [] p = "raw.fmt"     -> [NoFile EXCEPT !.exists = TRUE, !.ext = FIF_WRITEONLY]
      \* the content names a format that cannot be read
      [] p = "wonly.fmt"   -> [NoFile EXCEPT !.exists = TRUE, !.sig = FIF_WRITEONLY,
                                             !.ext = FIF_WRITEONLY]
      \* a readable format, but the decoder rejects the data
      [] p = "corrupt.png" -> [NoFile EXCEPT !.exists = TRUE, !.sig = FIF_READABLE,
                                             !.ext = FIF_READABLE]
      \* decodes to a float image, which has no 32-bit conversion
      [] p = "float.hdr"   -> Image(2, 2, 96, "FIT_RGBF", FALSE, FALSE, {})
      [] p = "dot.png"     -> Image(1, 1, 32, "FIT_BITMAP", FALSE, TRUE, {})
      [] p = "rgba4x4.png" -> Image(4, 4, 32, "FIT_BITMAP", TRUE, FALSE, {})
      [] p = "gray4x2.jpg" -> Image(4, 2, 24, "FIT_BITMAP", FALSE, TRUE, {})
      [] p = "pal4x4.bmp"  -> Image(4, 4, 8, "FIT_BITMAP", FALSE, FALSE, {<<2, 2>>})
      [] p = "deep2x2.tif" -> Image(2, 2, 48, "FIT_RGB16", FALSE, FALSE, {})
      \* content probe fails, the extension is good
      [] p = "odd.dat"     -> [Image(2, 2, 32, "FIT_BITMAP", FALSE, FALSE, {})
                                 EXCEPT !.sig = FIF_UNKNOWN]
      [] OTHER             -> NoFile

\* ------------------------------------------------- FreeImage, as operators
\* A FIBITMAP* is a record; id = 0 is the NULL pointer.  id names the
\* allocation: 1 the decoded bitmap, 2 the rescaled one, 3 the 32-bit one.
NULL ==
    [id |-> 0, img |-> "", w |-> 0, h |-> 0, bpp |-> 0, type |-> "FIT_UNKNOWN",
     transparent |-> FALSE, gray |-> FALSE, flipped |-> FALSE, failDims |-> {}]

FreeImage_GetFileType(p) == File(p).sig

FreeImage_GetFIFFromFilename(p) == File(p).ext

FreeImage_FIFSupportsReading(format) == format = FIF_READABLE

FreeImage_Load(format, p) ==
    IF FreeImage_FIFSupportsReading(format) /\ File(p).decodes
    THEN [id |-> 1, img |-> p, w |-> File(p).w, h |-> File(p).h,
          bpp |-> File(p).bpp, type |-> File(p).type,
          transparent |-> File(p).transparent, gray |-> File(p).gray,
          flipped |-> FALSE, failDims |-> File(p).failDims]
    ELSE NULL

FreeImage_FlipVertical(b) ==
    IF b.id = 0 THEN b ELSE [b EXCEPT !.flipped = ~b.flipped]

FreeImage_GetWidth(b) == IF b.id = 0 THEN 0 ELSE b.w

FreeImage_GetHeight(b) == IF b.id = 0 THEN 0 ELSE b.h

FreeImage_GetBPP(b) == IF b.id = 0 THEN 0 ELSE b.bpp

FreeImage_IsTransparent(b) == IF b.id = 0 THEN FALSE ELSE b.transparent

FreeImage_GetImageType(b) == IF b.id = 0 THEN "FIT_UNKNOWN" ELSE b.type

\* a new bitmap of the requested size, or NULL
FreeImage_Rescale(b, w, h, newId) ==
    IF b.id = 0 \/ w <= 0 \/ h <= 0 \/ <<w, h>> \in b.failDims
    THEN NULL
    ELSE [b EXCEPT !.id = newId, !.w = w, !.h = h]

\* a new 32-bit FIT_BITMAP, or NULL for the types that have no conversion
FreeImage_ConvertTo32Bits(b, newId) ==
    IF b.id = 0 \/ b.type \notin {"FIT_BITMAP", "FIT_RGB16", "FIT_RGBA16"}
    THEN NULL
    ELSE [b EXCEPT !.id = newId, !.bpp = 32, !.type = "FIT_BITMAP"]

\* ------------------------------------------------------ pixel buffers
\* the bytes one extraction appends
Chunk(b) ==
    [img |-> b.img, w |-> b.w, h |-> b.h, gray |-> b.gray, flipped |-> b.flipped]

ChunkLen(c) == c.w * c.h * 4

RECURSIVE ByteLen(_)
ByteLen(buf) ==
    IF buf = <<>> THEN 0 ELSE ChunkLen(Head(buf)) + ByteLen(Tail(buf))

\* FIBTIMAPToRGBA: appends to *rgba, returns false when the width is 0
FIBTIMAPToRGBA_ok(b) == FreeImage_GetWidth(b) # 0

FIBTIMAPToRGBA(b, rgba) ==
    IF FIBTIMAPToRGBA_ok(b) /\ FreeImage_GetHeight(b) > 0
    THEN Append(rgba, Chunk(b))
    ELSE rgba

ComputeChannelCount(b, bpp) ==
    IF FreeImage_GetImageType(b) # "FIT_BITMAP" THEN 0
    ELSE IF bpp = 8 THEN 1
    ELSE IF bpp = 24 THEN 3
    ELSE IF bpp = 32 THEN 4
    ELSE 0

\* GrayscaleCheck reads the first width*height pixels of dataRGBA.  A test
\* image is either gray in every pixel or gray in none, so the answer is
\* that of the chunks the first width*height pixels lie in.
RECURSIVE GrayPrefix(_, _)
GrayPrefix(buf, pixels) ==
    IF pixels <= 0 \/ buf = <<>> THEN TRUE
    ELSE Head(buf).gray /\ GrayPrefix(Tail(buf), pixels - Head(buf).w * Head(buf).h)

GrayscaleCheck(dataRGBA, width, height) == GrayPrefix(dataRGBA, width * height)

RescaleFIBITMAP_data(b, w, h, rgba) ==
    FIBTIMAPToRGBA(FreeImage_Rescale(b, w, h, 4), rgba)

RescaleFIBITMAP_ok(b, w, h) ==
    FIBTIMAPToRGBA_ok(FreeImage_Rescale(b, w, h, 4))

\* ------------------------------------------------------- mip size loop
\* the scalingJobs the while loop of GenerateMipmapsFromFIBITMAP records
NewJob(w, h) == [width |-> w, height |-> h, complete |-> FALSE, data |-> <<>>]

LoopCondition(w, h) == w > 1 /\ h > 1

RECURSIVE ScalingJobs(_, _)
ScalingJobs(w, h) ==
    IF LoopCondition(w, h)
    THEN <<NewJob(Max(w \div 2, 1), Max(h \div 2, 1))>>
           \o ScalingJobs(Max(w \div 2, 1), Max(h \div 2, 1))
    ELSE <<>>


\* ------------------------------------------------------------- the state
Tex == {"texA", "texB"}

Workers == 1..MaxWorkers

\* the (width, height) a caller pre-populates a TextureInfo with
RequestedDims == {<<0, 0>>, <<2, 2>>, <<4, 2>>}

VARIABLES
    tex,        \* tex[t]: the caller-owned TextureInfo records
    call,       \* call[t]: the Load invocation on tex[t]: position and locals
    loads,      \* loads[t]: Load / LoadAsync invocations made on tex[t] so far
    queue,      \* Threading: tasks submitted with AddTask and not yet started
    worker,     \* Threading: what each worker thread is running
    numThreads, \* Threading: how many worker threads it was created with
    scn,        \* what the callers of this run do: the textures and paths
                \* they use, and how often they load one texture
    ub,         \* undefined behaviour that has happened so far
    chain,      \* the mip size loop run on its own: [w, h, jobs, done]
    grayscale   \* GrayscaleCheck run on its own:
                \* [dataRGBA, width, height, ret, done]

vars == <<tex, call, loads, queue, worker, numThreads, scn, ub, chain, grayscale>>

NewTextureInfo(w, h, mips) ==
    [width |-> w, height |-> h, bpp |-> 0, channels |-> 0,
     isTransparent |-> FALSE, isGrayscale |-> FALSE, isUsingMipmaps |-> mips,
     loadState |-> "NotStarted", rgba |-> <<>>, rgba_mimaps |-> <<>>]

\* the locals of one Load invocation; entry is the TextureInfo as it was
\* when the invocation started, log the collaborator calls it has made
NoCall ==
    [pc |-> "idle", path |-> "", gen |-> 0,
     format |-> FIF_UNKNOWN, bitmapOriginal |-> NULL, bitmapScaled |-> NULL,
     bitmap32 |-> NULL, scale |-> FALSE, scalingJobs |-> <<>>,
     ret |-> FALSE, log |-> {}, live |-> {}, freed |-> {},
     entry |-> NewTextureInfo(0, 0, FALSE)]

IdleWorker == [kind |-> "idle", t |-> "", i |-> 0, gen |-> 0]

LoadTask(t, gen) == [kind |-> "load", t |-> t, i |-> 0, gen |-> gen]

MipTask(t, i, gen) == [kind |-> "mip", t |-> t, i |-> i, gen |-> gen]

NoChain == [w |-> 0, h |-> 0, jobs |-> <<>>, done |-> TRUE]

NoGrayscale ==
    [dataRGBA |-> <<>>, width |-> 0, height |-> 0, ret |-> FALSE, done |-> TRUE]

InitWith(textures, paths, dims, maxLoads) ==
    /\ tex \in [Tex -> {NewTextureInfo(d[1], d[2], m) : d \in dims, m \in BOOLEAN}]
    /\ \A t \in Tex \ textures : tex[t] = NewTextureInfo(0, 0, FALSE)
    /\ call = [t \in Tex |-> NoCall]
    /\ loads = [t \in Tex |-> 0]
    /\ queue = {}
    /\ worker = [w \in Workers |-> IdleWorker]
    /\ numThreads \in Workers
    /\ scn = [tex |-> textures, paths |-> paths, maxLoads |-> maxLoads]
    /\ ub = {}
    /\ chain = NoChain
    /\ grayscale = NoGrayscale

\* one TextureInfo and the file it is loaded from, of every kind; the caller
\* loads it, and loads it again
Init == \E p \in Paths : InitWith({"texA"}, {p}, RequestedDims, MaxLoads)

Terminal == {"Completed", "Failed"}

\* ------------------------------------------------------------------ Load
\* the worker thread that ran Load as a task, if one did, is free again
Release(t) ==
    [w \in Workers |->
        IF worker[w].kind = "load" /\ worker[w].t = t
        THEN IdleWorker ELSE worker[w]]

\* a Load that puts loadState back to NotStarted when it gives up
Return_Reset(t, state, result, log) ==
    /\ tex' = [tex EXCEPT ![t].loadState = IF result THEN state ELSE "NotStarted"]
    /\ call' = [call EXCEPT ![t].pc = "returned", ![t].ret = result, ![t].log = log]
    /\ worker' = Release(t)

\* return from Load before the decode: lines 66-67, 75-76, 79-80, 97-98, 108-109
Return(t, state, result, log) ==
    /\ tex' = [tex EXCEPT ![t].loadState = state]
    /\ call' = [call EXCEPT ![t].pc = "returned", ![t].ret = result, ![t].log = log]
    /\ worker' = Release(t)

\* a Load without its first statement
Enter_NoLoading(t, p, gen) ==
    /\ tex' = tex
    /\ call' = [call EXCEPT ![t] = [NoCall EXCEPT !.pc = "validate", !.path = p,
                                      !.gen = gen, !.entry = tex[t]]]

\* line 61: the first statement of Load
Enter(t, p, gen) ==
    /\ tex' = [tex EXCEPT ![t].loadState = "Loading"]
    /\ call' = [call EXCEPT ![t] = [NoCall EXCEPT !.pc = "validate", !.path = p,
                                      !.gen = gen, !.entry = tex[t]]]

CanCall(t, p) ==
    /\ t \in scn.tex
    /\ p \in scn.paths
    /\ call[t].pc \in {"idle", "returned"}
    /\ loads[t] < scn.maxLoads

\* bool Load(filePath, texInfo), called on the caller's own thread
Load(t, p) ==
    /\ CanCall(t, p)
    /\ loads' = [loads EXCEPT ![t] = @ + 1]
    /\ Enter(t, p, loads[t] + 1)
    /\ UNCHANGED <<queue, worker, numThreads, scn, ub, chain, grayscale>>

\* void LoadAsync(filePath, texInfo): AddTask([&]{ Load(filePath, texInfo); })
LoadAsync(t, p) ==
    /\ CanCall(t, p)
    /\ loads' = [loads EXCEPT ![t] = @ + 1]
    /\ queue' = queue \cup {LoadTask(t, loads[t] + 1)}
    /\ call' = [call EXCEPT ![t] = [NoCall EXCEPT !.pc = "queued", !.path = p,
                                      !.gen = loads[t] + 1, !.entry = tex[t]]]
    /\ UNCHANGED <<tex, worker, numThreads, scn, ub, chain, grayscale>>

\* the idle worker thread that takes the next task; idle threads are
\* interchangeable, so it is the first of them
TakesTask(w) ==
    /\ w <= numThreads
    /\ worker[w] = IdleWorker
    /\ \A v \in 1..(w - 1) : worker[v] # IdleWorker

\* a worker thread takes the submitted closure and enters Load
WorkerStartLoad(w, t) ==
    /\ TakesTask(w)
    /\ LoadTask(t, loads[t]) \in queue
    /\ call[t].pc = "queued"
    /\ queue' = queue \ {LoadTask(t, loads[t])}
    /\ worker' = [worker EXCEPT ![w] = LoadTask(t, loads[t])]
    /\ Enter(t, call[t].path, loads[t])
    /\ UNCHANGED <<loads, numThreads, scn, ub, chain, grayscale>>

\* a ValidateFilePath that asks the filesystem before it looks at the path
ValidateFilePath_ExistsFirst(p) ==
    [ok |-> File(p).exists /\ p # "" /\ p # NOT_ASSIGNED, calls |-> {"FileExists"}]

\* ValidateFilePath: its result and the collaborator calls it makes
ValidateFilePath(p) ==
    IF p = "" \/ p = NOT_ASSIGNED
    THEN [ok |-> FALSE, calls |-> {}]
    ELSE [ok |-> File(p).exists, calls |-> {"FileExists"}]

\* lines 63-68
LoadValidate(t) ==
    LET p == call[t].path
        log == call[t].log \cup ValidateFilePath(p).calls
    IN  /\ call[t].pc = "validate"
        /\ IF ~ValidateFilePath(p).ok
           THEN Return(t, "Failed", FALSE, log)
           ELSE /\ call' = [call EXCEPT ![t].pc = "engine", ![t].log = log]
                /\ UNCHANGED <<tex, worker>>
        /\ UNCHANGED <<loads, queue, numThreads, scn, ub, chain, grayscale>>

IsEngineTextureFile(p) == File(p).engine

\* TextureInfo::Deserialize, an opaque collaborator: only its result is known
Deserialize(p) == File(p).deser

\* a LoadEngineTexture that drops the result of Deserialize
LoadEngineTexture_Always(p) == TRUE

\* lines 184-193
LoadEngineTexture(p) == Deserialize(p)

\* lines 70-81
LoadEngine(t) ==
    LET p == call[t].path
        log == call[t].log \cup {"IsEngineTextureFile"}
    IN  /\ call[t].pc = "engine"
        /\ IF IsEngineTextureFile(p)
           THEN IF ~LoadEngineTexture(p)
                THEN Return(t, "Failed", FALSE, log \cup {"Deserialize"})
                ELSE Return(t, "Completed", TRUE, log \cup {"Deserialize"})
           ELSE /\ call' = [call EXCEPT ![t].pc = "format", ![t].log = log]
                /\ UNCHANGED <<tex, worker>>
        /\ UNCHANGED <<loads, queue, numThreads, scn, ub, chain, grayscale>>

\* lines 84-91: the format Load decodes with
ResolveFormat(p) ==
    IF FreeImage_GetFileType(p) = FIF_UNKNOWN
    THEN FreeImage_GetFIFFromFilename(p)
    ELSE FreeImage_GetFileType(p)

\* lines 83-110
LoadFormat(t) ==
    LET p == call[t].path
        probed == FreeImage_GetFileType(p)
        format == ResolveFormat(p)
        log == call[t].log \cup {"GetFileType"} \cup
               (IF probed = FIF_UNKNOWN
                THEN {"GetFIFFromFilename", "FIFSupportsReading"} ELSE {})
    IN  /\ call[t].pc = "format"
        /\ IF probed = FIF_UNKNOWN /\ ~FreeImage_FIFSupportsReading(format)
           THEN Return(t, "Failed", FALSE, log)
           ELSE IF format = 0 - 1 \/ format = FIF_UNKNOWN
           THEN Return(t, "Failed", FALSE, log)
           ELSE /\ call' = [call EXCEPT ![t].pc = "decode", ![t].log = log,
                                        ![t].format = format]
                /\ UNCHANGED <<tex, worker>>
        /\ UNCHANGED <<loads, queue, numThreads, scn, ub, chain, grayscale>>

Ids(bitmaps) == {b.id : b \in bitmaps} \ {0}

\* lines 112-127: decode, flip, rescale if asked, convert to 32 bits
Normalize(format, p, ti) ==
    LET bitmapOriginal == FreeImage_FlipVertical(FreeImage_Load(format, p))
        userDefineDimensions == ti.width # 0 /\ ti.height # 0
        dimensionMismatch == /\ FreeImage_GetWidth(bitmapOriginal) # ti.width
                             /\ FreeImage_GetHeight(bitmapOriginal) # ti.height
        scale == userDefineDimensions /\ dimensionMismatch
        bitmapScaled == IF scale
                        THEN FreeImage_Rescale(bitmapOriginal, ti.width, ti.height, 2)
                        ELSE bitmapOriginal
        bpp == FreeImage_GetBPP(bitmapOriginal)
        bitmap32 == IF bpp # 32
                    THEN FreeImage_ConvertTo32Bits(bitmapScaled, 3)
                    ELSE bitmapScaled
    IN  [bitmapOriginal |-> bitmapOriginal, bitmapScaled |-> bitmapScaled,
         bitmap32 |-> bitmap32, scale |-> scale, bpp |-> bpp]

\* lines 112-144: normalise, store, extract, classify
LoadDecode(t) ==
    LET ti == tex[t]
        n == Normalize(call[t].format, call[t].path, ti)
        width == FreeImage_GetWidth(n.bitmap32)
        height == FreeImage_GetHeight(n.bitmap32)
        rgba == FIBTIMAPToRGBA(n.bitmap32, ti.rgba)
        log == call[t].log \cup {"FreeImage_Load", "FlipVertical", "FIBTIMAPToRGBA"}
                 \cup (IF n.scale THEN {"Rescale"} ELSE {})
                 \cup (IF n.bpp # 32 THEN {"ConvertTo32Bits"} ELSE {})
    IN  /\ call[t].pc = "decode"
        /\ tex' = [tex EXCEPT ![t].bpp = 32,
                              ![t].isTransparent = FreeImage_IsTransparent(n.bitmap32),
                              ![t].width = width,
                              ![t].height = height,
                              ![t].channels = ComputeChannelCount(n.bitmap32, 32),
                              ![t].rgba = rgba,
                              ![t].isGrayscale = GrayscaleCheck(rgba, width, height)]
        /\ call' = [call EXCEPT ![t].pc = IF ti.isUsingMipmaps THEN "mips" ELSE "free",
                                ![t].log = log,
                                ![t].bitmapOriginal = n.bitmapOriginal,
                                ![t].bitmapScaled = n.bitmapScaled,
                                ![t].bitmap32 = n.bitmap32,
                                ![t].scale = n.scale,
                                ![t].live = Ids({n.bitmapOriginal, n.bitmapScaled,
                                                 n.bitmap32})]
        /\ UNCHANGED <<loads, queue, worker, numThreads, scn, ub, chain, grayscale>>

\* --------------------------------------------------- mip chain generation
\* lines 243-286: move the base level into slot 0, record the jobs, submit
\* one task per job
LoadMips(t) ==
    LET ti == tex[t]
        jobs == ScalingJobs(ti.width, ti.height)
    IN  /\ call[t].pc = "mips"
        /\ tex' = [tex EXCEPT ![t].rgba_mimaps = Append(ti.rgba_mimaps, ti.rgba),
                              ![t].rgba = <<>>]
        /\ call' = [call EXCEPT ![t].pc = "join", ![t].scalingJobs = jobs,
                                ![t].log = @ \cup (IF jobs = <<>> THEN {} ELSE {"AddTask"})]
        /\ queue' = queue \cup {MipTask(t, i, call[t].gen) : i \in 1..Len(jobs)}
        /\ UNCHANGED <<loads, worker, numThreads, scn, ub, chain, grayscale>>

RECURSIVE AppendAll(_, _)
AppendAll(mips, jobs) ==
    IF jobs = <<>> THEN mips
    ELSE AppendAll(Append(mips, Head(jobs).data), Tail(jobs))

\* lines 302-306
CopyMips(t) ==
    /\ tex' = [tex EXCEPT ![t].rgba_mimaps = AppendAll(@, call[t].scalingJobs)]
    /\ call' = [call EXCEPT ![t].pc = "free"]

AllComplete(jobs) == \A i \in 1..Len(jobs) : jobs[i].complete

\* lines 288-306: a pass of the polling loop that finds every flag set
LoadJoin(t) ==
    /\ call[t].pc = "join"
    /\ AllComplete(call[t].scalingJobs)
    /\ CopyMips(t)
    /\ UNCHANGED <<loads, queue, worker, numThreads, scn, ub, chain, grayscale>>

\* lines 288-306: `complete` is a plain bool that the workers write (line
\* 284) and this loop reads (line 295) with nothing ordering the two.  The
\* loop has no side effect, so a build may drop or hoist the reads: the
\* wait then ends although a job has not finished.
LoadJoinRace(t) ==
    /\ call[t].pc = "join"
    /\ ~AllComplete(call[t].scalingJobs)
    /\ CopyMips(t)
    /\ ub' = ub \cup {"join passed on a racing read"}
    /\ UNCHANGED <<loads, queue, worker, numThreads, scn, chain, grayscale>>

\* FreeImage_Unload of each bitmap in turn: what is live and freed after
RECURSIVE Unload(_, _)
Unload(heap, bitmaps) ==
    IF bitmaps = <<>> THEN heap
    ELSE LET b == Head(bitmaps)
             next == IF b.id = 0 THEN heap
                     ELSE [live |-> heap.live \ {b.id},
                           freed |-> heap.freed \cup {b.id},
                           twice |-> heap.twice \cup (heap.freed \cap {b.id})]
         IN  Unload(next, Tail(bitmaps))

\* lines 146-160: the bitmaps Load unloads, in order
Unloaded(t) ==
    <<call[t].bitmap32>>
      \o (IF tex[t].bpp # 32 THEN <<call[t].bitmapScaled>> ELSE <<>>)
      \o (IF call[t].scale THEN <<call[t].bitmapOriginal>> ELSE <<>>)

\* lines 146-164
LoadFinish(t) ==
    LET heap == Unload([live |-> call[t].live, freed |-> call[t].freed, twice |-> {}],
                       Unloaded(t))
    IN  /\ call[t].pc = "free"
        /\ tex' = [tex EXCEPT ![t].loadState = "Completed"]
        /\ call' = [call EXCEPT ![t].pc = "returned", ![t].ret = TRUE,
                                ![t].live = heap.live, ![t].freed = heap.freed]
        /\ worker' = Release(t)
        /\ ub' = ub \cup (IF heap.twice = {} THEN {} ELSE {"bitmap unloaded twice"})
        /\ UNCHANGED <<loads, queue, numThreads, scn, chain, grayscale>>

\* --------------------------------------------------------- the mip jobs
\* the job's captures (&job, &originalFIBITMAP) refer to the frame of the
\* GenerateMipmapsFromFIBITMAP call that submitted it
FrameAlive(task) ==
    call[task.t].pc = "join" /\ call[task.t].gen = task.gen

\* lines 277-283: a worker takes a mip task and runs RescaleFIBITMAP
WorkerStartJob(w, task) ==
    LET t == task.t
        job == call[t].scalingJobs[task.i]
    IN  /\ TakesTask(w)
        /\ task \in queue
        /\ task.kind = "mip"
        /\ queue' = queue \ {task}
        /\ worker' = [worker EXCEPT ![w] = task]
        /\ IF FrameAlive(task)
           THEN /\ call' = [call EXCEPT
                     ![t].scalingJobs[task.i].data =
                         RescaleFIBITMAP_data(call[t].bitmap32, job.width, job.height, @),
                     ![t].log = @ \cup {"Rescale", "FIBTIMAPToRGBA"}]
                /\ ub' = ub
           ELSE /\ call' = call
                /\ ub' = ub \cup {"mip job ran after its frame was gone"}
        /\ UNCHANGED <<tex, loads, numThreads, scn, chain, grayscale>>

\* line 284: job.complete = true, whatever RescaleFIBITMAP returned
WorkerFinishJob(w) ==
    LET task == worker[w]
    IN  /\ w <= numThreads
        /\ task.kind = "mip"
        /\ worker' = [worker EXCEPT ![w] = IdleWorker]
        /\ IF FrameAlive(task)
           THEN /\ call' = [call EXCEPT ![task.t].scalingJobs[task.i].complete = TRUE]
                /\ ub' = ub
           ELSE /\ call' = call
                /\ ub' = ub \cup {"mip job ran after its frame was gone"}
        /\ UNCHANGED <<tex, loads, queue, numThreads, scn, chain, grayscale>>

\* ------------------------------------------------------ specifications
LoadStep(t) ==
    \/ LoadValidate(t)
    \/ LoadEngine(t)
    \/ LoadFormat(t)
    \/ LoadDecode(t)
    \/ LoadMips(t)
    \/ LoadJoin(t)
    \/ LoadFinish(t)

WorkerStep(w) ==
    \/ \E t \in Tex : WorkerStartLoad(w, t)
    \/ \E task \in queue : WorkerStartJob(w, task)
    \/ WorkerFinishJob(w)

Next ==
    \/ \E t \in Tex, p \in Paths : Load(t, p)
    \/ \E t \in Tex, p \in Paths : LoadAsync(t, p)
    \/ \E t \in Tex : LoadStep(t)
    \/ \E t \in Tex : LoadJoinRace(t)
    \/ \E w \in Workers : WorkerStep(w)

Spec == Init /\ [][Next]_vars


\* two TextureInfo records loaded side by side on the shared scheduler;
\* worker threads run what they are given, callers run their own Load
InitPool == InitWith(Tex, {"rgba4x4.png", "missing.png"}, {<<0, 0>>}, 1)

Fairness ==
    /\ \A t \in Tex : WF_vars(LoadStep(t))
    /\ \A w \in Workers : WF_vars(WorkerStep(w))

FairSpec == InitPool /\ [][Next]_vars /\ Fairness

\* the mip size loop (lines 245-270) on its own, for every small base size
\* and the 513x300 base
InitChain ==
    /\ tex = [t \in Tex |-> NewTextureInfo(0, 0, FALSE)]
    /\ call = [t \in Tex |-> NoCall]
    /\ loads = [t \in Tex |-> 0]
    /\ queue = {}
    /\ worker = [w \in Workers |-> IdleWorker]
    /\ numThreads = 1
    /\ scn = [tex |-> {}, paths |-> {}, maxLoads |-> 0]
    /\ ub = {}
    /\ grayscale = NoGrayscale
    /\ \E w \in 1..MaxDim, h \in 1..MaxDim, big \in BOOLEAN :
          chain = [w |-> IF big THEN 513 ELSE w, h |-> IF big THEN 300 ELSE h,
                   jobs |-> <<>>, done |-> FALSE]

RunChain ==
    /\ ~chain.done
    /\ chain' = [chain EXCEPT !.jobs = ScalingJobs(chain.w, chain.h), !.done = TRUE]
    /\ UNCHANGED <<tex, call, loads, queue, worker, numThreads, scn, ub, grayscale>>

NextChain == RunChain

SpecChain == InitChain /\ [][NextChain]_vars

\* lines 323-345 on real bytes: dataRGBA is the byte vector (index 0 of the
\* source is index 1 here), four bytes per pixel, alpha last
PixelAt(dataRGBA, width, i, j) ==
    LET at == (i * width + j) * 4
    IN  [red |-> dataRGBA[at + 1], green |-> dataRGBA[at + 2],
         blue |-> dataRGBA[at + 3]]

GrayscaleCheckRGBA_RedGreen(dataRGBA, width, height) ==
    LET grayPixels ==
            Cardinality({ij \in (0..(height - 1)) \X (0..(width - 1)) :
                LET px == PixelAt(dataRGBA, width, ij[1], ij[2])
                IN  px.red = px.green})
        totalPixels == width * height
    IN  grayPixels = totalPixels

GrayscaleCheckRGBA(dataRGBA, width, height) ==
    LET grayPixels ==
            Cardinality({ij \in (0..(height - 1)) \X (0..(width - 1)) :
                LET px == PixelAt(dataRGBA, width, ij[1], ij[2])
                IN  px.red = px.green /\ px.red = px.blue})
        totalPixels == width * height
    IN  grayPixels = totalPixels

\* the values a byte of a test buffer takes
ByteValues == {0, 255}

\* GrayscaleCheck on its own, for every buffer of up to MaxPixels pixels and
\* every width and height that buffer can have, the empty ones included
InitGrayscale ==
    /\ tex = [t \in Tex |-> NewTextureInfo(0, 0, FALSE)]
    /\ call = [t \in Tex |-> NoCall]
    /\ loads = [t \in Tex |-> 0]
    /\ queue = {}
    /\ worker = [w \in Workers |-> IdleWorker]
    /\ numThreads = 1
    /\ scn = [tex |-> {}, paths |-> {}, maxLoads |-> 0]
    /\ ub = {}
    /\ chain = NoChain
    /\ \E width \in 0..MaxPixels, height \in 0..MaxPixels :
          /\ width * height <= MaxPixels
          /\ \E dataRGBA \in [1..(width * height * 4) -> ByteValues] :
                grayscale = [dataRGBA |-> dataRGBA, width |-> width,
                             height |-> height, ret |-> FALSE, done |-> FALSE]

RunGrayscaleCheck ==
    /\ ~grayscale.done
    /\ grayscale' = [grayscale EXCEPT
                        !.ret = GrayscaleCheckRGBA(grayscale.dataRGBA,
                                                   grayscale.width, grayscale.height),
                        !.done = TRUE]
    /\ UNCHANGED <<tex, call, loads, queue, worker, numThreads, scn, ub, chain>>

NextGrayscale == RunGrayscaleCheck

SpecGrayscale == InitGrayscale /\ [][NextGrayscale]_vars

\* ------------------------------------------------------------ the claims
Running == {"validate", "engine", "format", "decode", "mips", "join", "free"}

Returned(t) == call[t].pc = "returned"

\* the call got as far as decoding the file
Decoded(t) == "FreeImage_Load" \in call[t].log

\* C1: loadState is Loading from the first statement of Load until Load
\* returns, through validation, probing and decoding; when Load has returned
\* loadState is Completed or Failed, and Load returned true iff Completed.
C1_LoadingThenTerminal ==
    \A t \in Tex :
        /\ call[t].pc \in Running => tex[t].loadState = "Loading"
        /\ Returned(t) => /\ tex[t].loadState \in Terminal
                          /\ call[t].ret <=> tex[t].loadState = "Completed"

C1_Witness ==
    \E t \in Tex : Returned(t) /\ Decoded(t) /\ call[t].ret
                   /\ tex[t].loadState = "Completed"

\* C2 as stated: once loadState is Completed or Failed no step changes it.
C2_TerminalNeverChanges ==
    [][\A t \in Tex : tex[t].loadState \in Terminal
                        => tex'[t].loadState = tex[t].loadState]_vars

\* C2 amended: loadState changes only in two ways: the first statement of a
\* Load call sets it to Loading (from NotStarted, and also from Completed or
\* Failed when the caller loads again), and the return of that call moves it
\* from Loading to Completed or Failed; one call never changes it after that.
C2_MonotonicWithinCall ==
    [][\A t \in Tex :
          tex'[t].loadState # tex[t].loadState =>
             \/ /\ tex'[t].loadState = "Loading"
                /\ call[t].pc \in {"idle", "returned", "queued"}
                /\ call'[t].pc = "validate"
             \/ /\ tex[t].loadState = "Loading"
                /\ tex'[t].loadState \in Terminal
                /\ call[t].pc \in Running
                /\ call'[t].pc = "returned"]_vars

C2_Witness ==
    \E t \in Tex : /\ call[t].gen = 2
                   /\ call[t].entry.loadState \in Terminal
                   /\ tex[t].loadState = "Loading"

\* C3: every LoadAsync submission eventually has loadState Completed or
\* Failed, the workers running their tasks fairly.
C3_AsyncTerminates ==
    \A t \in Tex :
        (call[t].pc = "queued") ~> (Returned(t) /\ tex[t].loadState \in Terminal)

\* the TextureInfo is as it was when the call started, but for loadState
OnlyLoadStateChanged(t) ==
    tex[t] = [call[t].entry EXCEPT !.loadState = tex[t].loadState]

DecoderCalls ==
    {"GetFileType", "GetFIFFromFilename", "FIFSupportsReading", "FreeImage_Load",
     "FlipVertical", "Rescale", "ConvertTo32Bits", "FIBTIMAPToRGBA"}

\* C4: Load with an empty or NOT_ASSIGNED path fails without any call to the
\* filesystem, the engine-texture check or the decoder; Load with a path that
\* does not exist fails without any call to the decoder; either way Load
\* returns false, loadState is Failed and no other TextureInfo field changed.
C4_ValidationFailure ==
    \A t \in Tex :
        Returned(t) =>
           /\ call[t].path \in {"", NOT_ASSIGNED} =>
                 /\ ~call[t].ret
                 /\ tex[t].loadState = "Failed"
                 /\ call[t].log = {}
                 /\ OnlyLoadStateChanged(t)
           /\ (call[t].path \notin {"", NOT_ASSIGNED} /\ ~File(call[t].path).exists) =>
                 /\ ~call[t].ret
                 /\ tex[t].loadState = "Failed"
                 /\ call[t].log \cap (DecoderCalls \cup {"Deserialize", "AddTask"}) = {}
                 /\ OnlyLoadStateChanged(t)

C4_Witness ==
    \E t \in Tex : /\ Returned(t)
                   /\ call[t].path = ""
                   /\ call[t].gen = 2
                   /\ call[t].entry.loadState = "Failed"
                   /\ tex[t].loadState = "Failed"

\* C5: for a validated path that names an engine texture Load calls the
\* deserialize collaborator and nothing of the decoder or the mip jobs, and
\* ends Completed returning true iff deserialize succeeded, Failed returning
\* false otherwise.
C5_EngineTextureFastPath ==
    \A t \in Tex :
        (Returned(t) /\ ValidateFilePath(call[t].path).ok
                     /\ IsEngineTextureFile(call[t].path)) =>
           /\ "Deserialize" \in call[t].log
           /\ call[t].log \cap (DecoderCalls \cup {"AddTask"}) = {}
           /\ call[t].ret <=> Deserialize(call[t].path)
           /\ tex[t].loadState = IF Deserialize(call[t].path)
                                 THEN "Completed" ELSE "Failed"

C5_Witness ==
    \E t \in Tex : /\ Returned(t)
                   /\ call[t].path = "bad.tex"
                   /\ tex[t].loadState = "Failed"
                   /\ tex[t].isUsingMipmaps

\* the sizes of the levels: the base, then the recorded jobs
Levels(w, h, jobs) ==
    <<[width |-> w, height |-> h]>>
      \o [i \in 1..Len(jobs) |-> [width |-> jobs[i].width, height |-> jobs[i].height]]

\* C6: each level is max(previous / 2, 1) in both dimensions, and the chain
\* ends at the first 1x1 level, so its last level is 1x1; base 513x300 gives
\* 10 levels.
C6_MipChainLaw ==
    chain.done /\ chain.w >= 1 =>
       LET lv == Levels(chain.w, chain.h, chain.jobs)
       IN  /\ \A i \in 2..Len(lv) :
                 /\ lv[i].width = Max(lv[i - 1].width \div 2, 1)
                 /\ lv[i].height = Max(lv[i - 1].height \div 2, 1)
           /\ lv[Len(lv)].width = 1 /\ lv[Len(lv)].height = 1
           /\ \A i \in 1..(Len(lv) - 1) : ~(lv[i].width = 1 /\ lv[i].height = 1)
           /\ (chain.w = 513 /\ chain.h = 300) => Len(lv) = 10

\* the size of entry i of rgba_mimaps after a Load with mipmaps
Dims(t, i) == Levels(tex[t].width, tex[t].height, call[t].scalingJobs)[i]

\* a Load on a TextureInfo whose buffers were empty has returned Completed
\* and generated mipmaps
CompletedWithMips(t) ==
    /\ Returned(t) /\ call[t].ret /\ Decoded(t)
    /\ tex[t].isUsingMipmaps
    /\ call[t].entry.rgba = <<>> /\ call[t].entry.rgba_mimaps = <<>>

\* C7: after a Load with mipmaps has returned Completed, entry i of
\* rgba_mimaps is dims(i).w * dims(i).h * 4 bytes long, for every i.
C7_MipByteLength ==
    \A t \in Tex :
        CompletedWithMips(t) =>
           /\ Len(tex[t].rgba_mimaps) = 1 + Len(call[t].scalingJobs)
           /\ \A i \in 1..Len(tex[t].rgba_mimaps) :
                 ByteLen(tex[t].rgba_mimaps[i]) = Dims(t, i).width * Dims(t, i).height * 4

\* C8: after a Load that decoded an image has returned Completed, rgba is
\* width * height * 4 bytes long, for the width and height Load wrote back.
C8_BaseLevelLength ==
    \A t \in Tex :
        (Returned(t) /\ call[t].ret /\ Decoded(t)) =>
           ByteLen(tex[t].rgba) = tex[t].width * tex[t].height * 4

\* what a Load of p into the TextureInfo ti (with empty buffers) produces
\* when every step runs to its end in program order
ExpectedBitmap32(p, ti) == Normalize(ResolveFormat(p), p, ti).bitmap32

ExpectedBase(p, ti) == FIBTIMAPToRGBA(ExpectedBitmap32(p, ti), <<>>)

ExpectedMips(p, ti) ==
    LET b == ExpectedBitmap32(p, ti)
        jobs == ScalingJobs(FreeImage_GetWidth(b), FreeImage_GetHeight(b))
    IN  <<ExpectedBase(p, ti)>>
          \o [i \in 1..Len(jobs) |->
                RescaleFIBITMAP_data(b, jobs[i].width, jobs[i].height, <<>>)]

\* C9: the buffers a completed Load leaves are a function of the file and of
\* the TextureInfo it was given: the same in every run, whatever the number
\* of workers and the order the mip jobs ran in.
C9_Deterministic ==
    \A t \in Tex :
        (/\ Returned(t) /\ call[t].ret /\ Decoded(t)
         /\ call[t].entry.rgba = <<>> /\ call[t].entry.rgba_mimaps = <<>>) =>
           LET p == call[t].path
               ti == call[t].entry
           IN  /\ tex[t].rgba =
                     IF ti.isUsingMipmaps THEN <<>> ELSE ExpectedBase(p, ti)
               /\ tex[t].rgba_mimaps =
                     IF ti.isUsingMipmaps THEN ExpectedMips(p, ti) ELSE <<>>

\* the rescale of level i of this call fails
LevelFails(t, i) ==
    ~RescaleFIBITMAP_ok(call[t].bitmap32, call[t].scalingJobs[i].width,
                        call[t].scalingJobs[i].height)

\* C10: when the rescale of a level fails, Load still returns Completed, the
\* entry of that level in rgba_mimaps is empty and the entry of every other
\* level holds the pixels of that level.
C10_MipFailureIsLocal ==
    \A t \in Tex :
        (/\ call[t].pc \in {"free", "returned"} /\ Decoded(t)
         /\ tex[t].isUsingMipmaps
         /\ call[t].entry.rgba = <<>> /\ call[t].entry.rgba_mimaps = <<>>
         /\ \E i \in 1..Len(call[t].scalingJobs) : LevelFails(t, i)) =>
           LET jobs == call[t].scalingJobs
               b == call[t].bitmap32
           IN  /\ Returned(t) => (call[t].ret /\ tex[t].loadState = "Completed")
               /\ Len(tex[t].rgba_mimaps) = 1 + Len(jobs)
               /\ \A i \in 1..Len(jobs) :
                     IF LevelFails(t, i)
                     THEN tex[t].rgba_mimaps[i + 1] = <<>>
                     ELSE tex[t].rgba_mimaps[i + 1]
                            = RescaleFIBITMAP_data(b, jobs[i].width, jobs[i].height, <<>>)

\* the dimensions the caller asked for, and those of the decoded file
Requested(t) == <<call[t].entry.width, call[t].entry.height>>

Native(t) == <<FreeImage_GetWidth(call[t].bitmapOriginal),
               FreeImage_GetHeight(call[t].bitmapOriginal)>>

\* the call decoded the file and every normalisation step gave a bitmap
Normalized(t) == Returned(t) /\ Decoded(t) /\ call[t].bitmap32 # NULL

\* C11: when the requested dimensions are both non-zero and differ from
\* the file's in width, in height or in both, the image is rescaled to
\* exactly the requested dimensions; when they are (0, 0) or equal to the
\* file's, the image keeps the file's dimensions.
C11_RescaleToRequested ==
    \A t \in Tex :
        Normalized(t) =>
            IF /\ Requested(t)[1] # 0
               /\ Requested(t)[2] # 0
               /\ Requested(t) # Native(t)
            THEN /\ call[t].scale
                 /\ <<tex[t].width, tex[t].height>> = Requested(t)
            ELSE /\ ~call[t].scale
                 /\ <<tex[t].width, tex[t].height>> = Native(t)

\* the channel count the documentation gives for a decoded bitmap
ChannelsOf(bitmap) ==
    IF FreeImage_GetImageType(bitmap) # "FIT_BITMAP" THEN 0
    ELSE IF FreeImage_GetBPP(bitmap) = 32 THEN 4
    ELSE IF FreeImage_GetBPP(bitmap) = 8 THEN 1
    ELSE IF FreeImage_GetBPP(bitmap) = 24 THEN 3
    ELSE 0

\* C12: after a decoding Load, channels is 4 when the decoded image has 32
\* bits per pixel, 1 when it has 8, 3 when it has 24 and 0 for any other
\* depth; an image that is not a standard raster bitmap has 0 channels.
C12_ChannelCount ==
    \A t \in Tex :
        Normalized(t) => tex[t].channels = ChannelsOf(call[t].bitmapOriginal)

\* the call got as far as resolving the format of the file
Probed(t) == "GetFileType" \in call[t].log

\* C13: the extension lookup is made only when the content probe gave
\* Unknown, and whenever the format resolved in the end, by content or by
\* extension, cannot be read, Load ends Failed, returns false and has not
\* called the decoder.
C13_UnreadableFormatFails ==
    \A t \in Tex :
        Returned(t) /\ Probed(t) =>
            /\ "GetFIFFromFilename" \in call[t].log
                  => FreeImage_GetFileType(call[t].path) = FIF_UNKNOWN
            /\ ~FreeImage_FIFSupportsReading(ResolveFormat(call[t].path))
                  => /\ tex[t].loadState = "Failed"
                     /\ ~call[t].ret
                     /\ ~Decoded(t)

\* C14: when the decode, the rescale or the 32-bit conversion of a Load
\* yields no bitmap, Load ends Failed and returns false; it never ends
\* Completed for a call whose normalisation produced no bitmap.
C14_NormalizerFailureFails ==
    \A t \in Tex :
        Returned(t) /\ Decoded(t) /\ call[t].bitmap32 = NULL =>
            /\ tex[t].loadState = "Failed"
            /\ ~call[t].ret

\* the pixels (0-based) of the buffer GrayscaleCheck was run on
PixelIndex == 0..(grayscale.width * grayscale.height - 1)

IsGrayPixel(k) ==
    /\ grayscale.dataRGBA[4 * k + 1] = grayscale.dataRGBA[4 * k + 2]
    /\ grayscale.dataRGBA[4 * k + 1] = grayscale.dataRGBA[4 * k + 3]

\* C15: GrayscaleCheck(rgba, w, h) returns true iff every one of the w*h
\* pixels of the buffer has R = G = B, whatever the alpha bytes are: one
\* pixel with unequal colour bytes makes it false, and a zero-size image
\* gives true.
C15_GrayscaleIffAllPixelsGray ==
    grayscale.done =>
        /\ grayscale.ret <=> \A k \in PixelIndex : IsGrayPixel(k)
        /\ grayscale.width * grayscale.height = 0 => grayscale.ret

\* a two-pixel buffer whose only non-gray pixel has R = G but another blue,
\* with unequal alpha bytes, was checked and found not gray
C15_Witness ==
    /\ grayscale.done
    /\ grayscale.width * grayscale.height = 2
    /\ IsGrayPixel(0)
    /\ grayscale.dataRGBA[5] = grayscale.dataRGBA[6]
    /\ grayscale.dataRGBA[5] # grayscale.dataRGBA[7]
    /\ grayscale.dataRGBA[4] # grayscale.dataRGBA[8]
    /\ ~grayscale.ret

\* the mip jobs of the current call on t that are queued or on a worker
JobsInFlight(t) ==
    {task \in queue \cup {worker[w] : w \in Workers} :
        task.kind = "mip" /\ task.t = t /\ task.gen = call[t].gen}

\* C16: the mip generation returns, and Load copies the levels and ends
\* Completed, only after every mip job of the call has set its complete
\* flag: loadState is never Completed while a job of that call is still
\* queued or running.
C16_JoinBarrier ==
    \A t \in Tex :
        /\ call[t].pc \in {"free", "returned"} => AllComplete(call[t].scalingJobs)
        /\ Returned(t) /\ tex[t].loadState = "Completed" => JobsInFlight(t) = {}

\* C17: when a Load that decoded a bitmap has returned, every bitmap handle
\* the call created (decoded, rescaled, converted to 32 bits) has been
\* released, whether the call scaled, converted, did both or did neither.
C17_AllHandlesReleased ==
    \A t \in Tex : Returned(t) /\ Decoded(t) => call[t].live = {}

\* the mip job worker w starts or finishes in this step, if it does
JobStep(w) ==
    /\ worker'[w] # worker[w]
    /\ worker'[w].kind = "mip" \/ worker[w].kind = "mip"

JobOf(w) == IF worker'[w].kind = "mip" THEN worker'[w] ELSE worker[w]

\* the step writes nothing but data and complete of the descriptor of task:
\* the TextureInfo records, the bitmaps and every other descriptor stay
WritesOwnSlotOnly(task) ==
    /\ tex' = tex
    /\ \A t \in Tex :
          /\ call'[t] = [call[t] EXCEPT !.scalingJobs = call'[t].scalingJobs,
                                        !.log = call'[t].log]
          /\ Len(call'[t].scalingJobs) = Len(call[t].scalingJobs)
          /\ \A i \in 1..Len(call[t].scalingJobs) :
                IF t = task.t /\ i = task.i
                THEN call'[t].scalingJobs[i] =
                        [call[t].scalingJobs[i] EXCEPT
                            !.data = call'[t].scalingJobs[i].data,
                            !.complete = call'[t].scalingJobs[i].complete]
                ELSE call'[t].scalingJobs[i] = call[t].scalingJobs[i]

\* C18: a mip job writes only the data buffer and the complete flag of its
\* own job descriptor, which is there to be written; no two workers run the
\* job of one descriptor, and no job writes a TextureInfo or a bitmap.
C18_JobsWriteOwnSlot ==
    [][\A w \in Workers :
          JobStep(w) =>
             /\ FrameAlive(JobOf(w))
             /\ WritesOwnSlotOnly(JobOf(w))
             /\ \A v \in Workers \ {w} : worker'[v] # JobOf(w)
             /\ JobOf(w) \notin queue']_vars

\* C19: no bitmap is used after it was unloaded: Load unloads no bitmap
\* twice, and it unloads the 32-bit source bitmap only when every mip job
\* that rescales from it has finished, so no job reads it afterwards.
C19_NoUseAfterRelease ==
    \A t \in Tex :
        /\ call[t].freed \cap call[t].live = {}
        /\ "bitmap unloaded twice" \notin ub
        /\ call[t].bitmap32.id \in call[t].freed => JobsInFlight(t) = {}

====
